---- MODULE Spec2Model ----
(***************************************************************************)
(* Model of the fluent query-assertion builder of bevy_testing             *)
(* (src/src/query.rs, AssertQuery) together with the two reporting         *)
(* routines it diverges through (src/src/lib.rs, mismatch and              *)
(* unexpected_match) and the construction in TestApp::query.               *)
(*                                                                         *)
(* A chain  app.query().not().has(x).length(n) ...  is a run of the state  *)
(* machine: the builder is threaded by value through the calls, a call     *)
(* either returns the builder or panics.                                   *)
(***************************************************************************)
EXTENDS Integers, Sequences, FiniteSets

\* ---------------------------------------------------------------- bounds
NumRecords == 2          \* distinct record values (D::Item with PartialEq)
MaxLen == 3              \* longest query result / given Vec, one assertion
MaxChainLen == 2         \* longest query result in longer chains
MaxChainGiven == 1       \* longest given Vec in longer chains
MaxNots == 2             \* not() calls between two assertion calls
MaxCalls == 2            \* assertion calls in one chain
MaxEntities == 1         \* entities spawned into one App
MaxCount == 10           \* largest Countdown value spawned
MaxAmount == 2           \* largest amount given to update_n_times
MaxUpdates == 3          \* runs of the Update schedule in one test

Records == 1..NumRecords
Vecs == UNION {[1..k -> Records] : k \in 0..MaxLen}
ChainVecs == UNION {[1..k -> Records] : k \in 0..MaxChainLen}
ChainGivens == UNION {[1..k -> Records] : k \in 0..MaxChainGiven}
Predicates == SUBSET Records          \* a pure predicate is the set it accepts
Lengths == 0..(MaxLen + 1)
EntityIds == 1..(MaxEntities + 1)     \* Entity values a test can hold
Counts == 0..MaxCount
Amounts == 0..MaxAmount

\* ------------------------------------------------- values handed to Debug
None == [tag |-> "none", v |-> 0]
Item(x) == [tag |-> "item", v |-> x]
Some(x) == [tag |-> "some", v |-> x]
Vec(s) == [tag |-> "vec", v |-> s]
Usize(n) == [tag |-> "usize", v |-> n]
Str(s) == [tag |-> "str", v |-> s]
Fn(p) == [tag |-> "fn", v |-> p]

NoBuilder == [query |-> <<>>, invert |-> FALSE, moved |-> TRUE]
AssertQuery(collected, inv) == [query |-> collected, invert |-> inv, moved |-> FALSE]

VARIABLES
  builder,     \* the AssertQuery value currently owned by the chain
  pc,          \* "running", "aborted" (panicked) or "done" (chain ended)
  snapshot,    \* what the query engine produced at construction
  hist,        \* values of invert since construction / the last assertion
  last,        \* the last assertion call evaluated and what it produced
  evaluated,   \* assertion calls evaluated so far
  returned,    \* assertion calls that returned a builder
  app,         \* the App under test
  appLast      \* the last TestApp method called on it and what it produced

vars == <<builder, pc, snapshot, hist, last, evaluated, returned, app, appLast>>

\* ------------------------------------------------------------- iteration
\* iter().any(|v| v == x)
Contains(s, x) == \E i \in 1..Len(s) : s[i] = x

\* position of the first element a for-loop / find() stops at, 0 if none
\* (stop is the set of values the loop body / closure stops on)
FirstIndex(s, stop) ==
  IF \E i \in 1..Len(s) : s[i] \in stop
  THEN CHOOSE i \in 1..Len(s) : s[i] \in stop /\ \A j \in 1..(i - 1) : s[j] \notin stop
  ELSE 0

\* ------------------------------------------------------- lib.rs reporting
Return(self) ==
  [aborted |-> FALSE, builder |-> self, failure |-> "none", message |-> "",
   sections |-> <<>>, given |-> None, found |-> None, matched |-> None]

mismatch_returns(message, given, found) ==
  [aborted |-> FALSE, builder |-> NoBuilder, failure |-> "mismatch",
   message |-> message, sections |-> <<"Given:", "Found:">>,
   given |-> given, found |-> found, matched |-> None]

mismatch(message, given, found) ==
  [aborted |-> TRUE, builder |-> NoBuilder, failure |-> "mismatch",
   message |-> message, sections |-> <<"Given:", "Found:">>,
   given |-> given, found |-> found, matched |-> None]

unexpected_match(message, matches_) ==
  [aborted |-> TRUE, builder |-> NoBuilder, failure |-> "unexpected_match",
   message |-> message, sections |-> <<"Match:">>,
   given |-> None, found |-> None, matched |-> matches_]

\* ------------------------------------------------------ query.rs methods
reset_invert_keeps(self) == self

reset_invert_fresh(self) == AssertQuery(<<>>, FALSE)

reset_invert(self) == [self EXCEPT !.invert = FALSE]

not_sets(self) == [self EXCEPT !.invert = TRUE]

not(self) == [self EXCEPT !.invert = ~self.invert]

not_matches_no_length(self, given) ==
  IF FirstIndex(self.query, {b \in Records : ~Contains(given, b)}) # 0
  THEN Return(reset_invert(self))
  ELSE IF FirstIndex(given, {b \in Records : ~Contains(self.query, b)}) # 0
  THEN Return(reset_invert(self))
  ELSE unexpected_match("The query matches with the given bundles", Vec(given))

not_matches(self, given) ==
  IF FirstIndex(self.query, {b \in Records : ~Contains(given, b)}) # 0
  THEN Return(reset_invert(self))
  ELSE IF FirstIndex(given, {b \in Records : ~Contains(self.query, b)}) # 0
  THEN Return(reset_invert(self))
  ELSE IF Len(given) # Len(self.query)
  THEN Return(reset_invert(self))
  ELSE unexpected_match("The query matches with the given bundles", Vec(given))

matches_ordered(self, given) ==
  IF self.invert THEN not_matches(self, given)
  ELSE IF given # self.query
  THEN mismatch("The length of the query result and the given result mismatches.",
                Usize(Len(given)), Usize(Len(self.query)))
  ELSE Return(self)

matches(self, given) ==
  IF self.invert THEN not_matches(self, given)
  ELSE IF FirstIndex(self.query, {b \in Records : ~Contains(given, b)}) # 0
  THEN mismatch("One of the given bundles wasn't found in the query.",
                Vec(given), None)
  ELSE IF FirstIndex(given, {b \in Records : ~Contains(self.query, b)}) # 0
  THEN mismatch("The query contains an unexpected bundle.", None,
                Item(given[FirstIndex(given, {b \in Records : ~Contains(self.query, b)})]))
  ELSE IF Len(given) # Len(self.query)
  THEN mismatch("The length of the query result and the given result mismatches.",
                Usize(Len(given)), Usize(Len(self.query)))
  ELSE Return(self)

not_has_flipped(self, given) ==
  IF Contains(self.query, given)
  THEN Return(reset_invert(self))
  ELSE unexpected_match("The query contains all given bundles", Item(given))

not_has(self, given) ==
  IF ~Contains(self.query, given)
  THEN Return(reset_invert(self))
  ELSE unexpected_match("The query contains all given bundles", Item(given))

has_first_only(self, given) ==
  IF self.invert THEN not_has(self, given)
  ELSE IF ~(Len(self.query) > 0 /\ self.query[1] = given)
  THEN mismatch("The given bundle wasn't found in the query.", Item(given), None)
  ELSE Return(self)

has(self, given) ==
  IF self.invert THEN not_has(self, given)
  ELSE IF ~Contains(self.query, given)
  THEN mismatch("The given bundle wasn't found in the query.", Item(given), None)
  ELSE Return(self)

not_has_all_mismatch(self, given) ==
  IF FirstIndex(given, {g \in Records : ~Contains(self.query, g)}) # 0
  THEN Return(reset_invert(self))
  ELSE mismatch("The query has all given bundles.", Vec(given), None)

not_has_all(self, given) ==
  IF FirstIndex(given, {g \in Records : ~Contains(self.query, g)}) # 0
  THEN Return(reset_invert(self))
  ELSE unexpected_match("The query has all given bundles.", Vec(given))

has_all_last_missing(self, given) ==
  IF self.invert THEN not_has_all(self, given)
  ELSE IF FirstIndex(given, {g \in Records : ~Contains(self.query, g)}) # 0
  THEN mismatch("The given bundle wasn't found in the query.",
                Item(given[CHOOSE i \in 1..Len(given) :
                             /\ ~Contains(self.query, given[i])
                             /\ \A j \in (i + 1)..Len(given) :
                                  Contains(self.query, given[j])]),
                None)
  ELSE Return(self)

has_all(self, given) ==
  IF self.invert THEN not_has_all(self, given)
  ELSE IF FirstIndex(given, {g \in Records : ~Contains(self.query, g)}) # 0
  THEN mismatch("The given bundle wasn't found in the query.",
                Item(given[FirstIndex(given, {g \in Records : ~Contains(self.query, g)})]),
                None)
  ELSE Return(self)

not_has_any_first_given(self, given) ==
  IF \E i \in 1..Len(self.query) : Contains(given, self.query[i])
  THEN unexpected_match("Some of the given bundles were found in the query.",
         Some(given[FirstIndex(given, {g \in Records : Contains(self.query, g)})]))
  ELSE Return(reset_invert(self))

not_has_any(self, given) ==
  IF \E i \in 1..Len(self.query) : Contains(given, self.query[i])
  THEN unexpected_match("Some of the given bundles were found in the query.",
         Some(self.query[FirstIndex(self.query, {b \in Records : Contains(given, b)})]))
  ELSE Return(reset_invert(self))

has_any(self, given) ==
  IF self.invert THEN not_has_any(self, given)
  ELSE IF ~(\E i \in 1..Len(self.query) : Contains(given, self.query[i]))
  THEN mismatch("None of the given bundles were found in the query.",
                Vec(given), None)
  ELSE Return(self)

not_all(self, predicate) ==
  IF FirstIndex(self.query, {b \in Records : b \notin predicate}) # 0
  THEN Return(reset_invert(self))
  ELSE unexpected_match("The predicate matches on all of the bundles.",
                        Vec(self.query))

all_cites_last(self, predicate) ==
  IF self.invert THEN not_all(self, predicate)
  ELSE IF FirstIndex(self.query, {b \in Records : b \notin predicate}) # 0
  THEN mismatch("The predicate fails on one of the bundles",
                Str("impl Fn(&D::Item<'w>) -> bool"),
                Item(self.query[CHOOSE i \in 1..Len(self.query) :
                                  /\ self.query[i] \notin predicate
                                  /\ \A j \in (i + 1)..Len(self.query) :
                                       self.query[j] \in predicate]))
  ELSE Return(self)

all(self, predicate) ==
  IF self.invert THEN not_all(self, predicate)
  ELSE IF FirstIndex(self.query, {b \in Records : b \notin predicate}) # 0
  THEN mismatch("The predicate fails on one of the bundles",
                Str("impl Fn(&D::Item<'w>) -> bool"),
                Item(self.query[FirstIndex(self.query, {b \in Records : b \notin predicate})]))
  ELSE Return(self)

not_any_cites_last(self, predicate) ==
  IF \E i \in 1..Len(self.query) : self.query[i] \in predicate
  THEN unexpected_match("The predicate matched on one of the bundles",
         Some(self.query[CHOOSE i \in 1..Len(self.query) :
                           /\ self.query[i] \in predicate
                           /\ \A j \in (i + 1)..Len(self.query) :
                                self.query[j] \notin predicate]))
  ELSE Return(reset_invert(self))

not_any(self, predicate) ==
  IF \E i \in 1..Len(self.query) : self.query[i] \in predicate
  THEN unexpected_match("The predicate matched on one of the bundles",
         Some(self.query[FirstIndex(self.query, {b \in Records : b \in predicate})]))
  ELSE Return(reset_invert(self))

any(self, predicate) ==
  IF self.invert THEN not_any(self, predicate)
  ELSE IF ~(\E i \in 1..Len(self.query) : self.query[i] \in predicate)
  THEN mismatch("The predicate didn't match on any of the bundles",
                Str("impl Fn(&D::Item<'w>) -> bool"), None)
  ELSE Return(self)

not_length_no_reset(self, given) ==
  IF Len(self.query) = given
  THEN unexpected_match("The length of the query result matches.", Usize(given))
  ELSE Return(self)

not_length(self, given) ==
  IF Len(self.query) = given
  THEN unexpected_match("The length of the query result matches.", Usize(given))
  ELSE Return(reset_invert(self))

length_at_least(self, given) ==
  IF self.invert THEN not_length(self, given)
  ELSE IF Len(self.query) < given
  THEN mismatch("The length of the query result mismatches.",
                Usize(given), Usize(Len(self.query)))
  ELSE Return(self)

length(self, given) ==
  IF self.invert THEN not_length(self, given)
  ELSE IF Len(self.query) # given
  THEN mismatch("The length of the query result mismatches.",
                Usize(given), Usize(Len(self.query)))
  ELSE Return(self)

\* ------------------------------------------------- lib.rs, impl TestApp
\* The world is the sequence of spawned entities (entity e is world[e]); an
\* entity carries a Countdown component or none.  A Countdown is a u32: it
\* is kept as the representative c of its value modulo 2^32, so that a
\* wrapped 0 - 1 is -1.  With overflow checks (debug builds) 0 - 1 panics.
Ok(v) == [panic |-> FALSE, v |-> v, msg |-> ""]
Panic(msg) == [panic |-> TRUE, v |-> None, msg |-> msg]
EntityRef(e) == [tag |-> "EntityRef", v |-> e]
EntityWorldMut(e) == [tag |-> "EntityWorldMut", v |-> e]
Countdown(c) == [countdown |-> Some(c)]
NoComponents == [countdown |-> None]

\* App::new() with the CountdownPlugin added
NewApp(checks) ==
  [world |-> <<>>, overflow_checks |-> checks, panicked |-> FALSE,
   updates |-> 0, borrowed |-> FALSE]

\* the App while an AssertQuery<'w> holds its &'w mut borrow
BorrowedApp ==
  [world |-> <<>>, overflow_checks |-> FALSE, panicked |-> FALSE,
   updates |-> 0, borrowed |-> TRUE]

spawn_empty(self) == [self EXCEPT !.world = Append(@, NoComponents)]

spawn(self, bundle) == [self EXCEPT !.world = Append(@, bundle)]

\* World::entity / World::entity_mut panic on an entity that does not exist,
\* World::get_entity / World::get_entity_mut return None
entity(self, e) ==
  IF e \in 1..Len(self.world) THEN Ok(EntityRef(e))
  ELSE Panic("Entity does not exist")

entity_mut(self, e) ==
  IF e \in 1..Len(self.world) THEN Ok(EntityWorldMut(e))
  ELSE Panic("Entity does not exist")

get_entity(self, e) ==
  IF e \in 1..Len(self.world) THEN Ok(Some(EntityRef(e))) ELSE Ok(None)

get_entity_mut(self, e) ==
  IF e \in 1..Len(self.world) THEN Ok(Some(EntityWorldMut(e))) ELSE Ok(None)

get_component_probing(self, e) ==
  IF get_entity(self, e).v.tag = "none" THEN Ok(None)
  ELSE Ok(self.world[e].countdown)

\* self.world().entity(entity).get::<T>()
get_component(self, e) ==
  IF entity(self, e).panic THEN entity(self, e)
  ELSE Ok(self.world[entity(self, e).v.v].countdown)

\* self.get_component(entity).unwrap_or_else(|| panic!(..))
component(self, e) ==
  IF get_component(self, e).panic THEN get_component(self, e)
  ELSE IF get_component(self, e).v.tag = "none"
  THEN Panic("component is not part of the entity")
  ELSE Ok(get_component(self, e).v.v)

\* my_lib::countdown_sys, the system the Update schedule runs
countdown_sys(self) ==
  IF /\ self.overflow_checks
     /\ \E e \in 1..Len(self.world) :
          self.world[e].countdown.tag = "some" /\ self.world[e].countdown.v = 0
  THEN [self EXCEPT !.panicked = TRUE]
  ELSE [self EXCEPT !.world =
          [e \in 1..Len(self.world) |->
             IF self.world[e].countdown.tag = "some"
             THEN Countdown(self.world[e].countdown.v - 1)
             ELSE self.world[e]]]

update_once(self) == [countdown_sys(self) EXCEPT !.updates = @ + 1]

RECURSIVE update_n_times_inclusive(_, _)
update_n_times_inclusive(self, amount) ==
  IF self.panicked THEN self
  ELSE IF amount = 0 THEN update_once(self)
  ELSE update_n_times_inclusive(update_once(self), amount - 1)

\* for _ in 0..amount { self.update_once(); }  (a panic leaves the loop)
RECURSIVE update_n_times(_, _)
update_n_times(self, amount) ==
  IF amount = 0 \/ self.panicked THEN self
  ELSE update_n_times(update_once(self), amount - 1)

NoOp == [op |-> "none", entity |-> 0, amount |-> 0, before |-> BorrowedApp, res |-> Ok(None)]

\* ------------------------------------------------------------ the chain
NoCall ==
  [method |-> "none", arg |-> None, before |-> NoBuilder, hist |-> <<>>,
   out |-> Return(NoBuilder)]

\* TestApp::query / query_filtered: collect the engine's rows, invert = false
Construct(collected) ==
  /\ builder = AssertQuery(collected, FALSE)
  /\ pc = "running"
  /\ snapshot = collected
  /\ hist = <<FALSE>>
  /\ last = NoCall
  /\ evaluated = 0
  /\ returned = 0
  /\ app = BorrowedApp
  /\ appLast = NoOp

Init == \E collected \in Vecs : Construct(collected)

ChainInit == \E collected \in ChainVecs : Construct(collected)

\* one assertion call of the chain: the builder is moved into the method,
\* which hands it back or panics (calls bounds the length of the chain)
Step(calls, method, arg, out) ==
  /\ pc = "running"
  /\ evaluated < calls
  /\ builder' = out.builder
  /\ pc' = IF out.aborted THEN "aborted" ELSE "running"
  /\ last' = [method |-> method, arg |-> arg, before |-> builder,
              hist |-> hist, out |-> out]
  /\ hist' = IF out.aborted THEN <<>> ELSE <<out.builder.invert>>
  /\ evaluated' = evaluated + 1
  /\ returned' = IF out.aborted THEN returned ELSE returned + 1
  /\ UNCHANGED <<snapshot, app, appLast>>

\* (calls: no not() is modelled after the last assertion of the chain)
Not(calls) ==
  /\ pc = "running"
  /\ evaluated < calls
  /\ Len(hist) <= MaxNots
  /\ builder' = not(builder)
  /\ hist' = Append(hist, not(builder).invert)
  /\ UNCHANGED <<pc, snapshot, last, evaluated, returned, app, appLast>>

Matches(vecs, calls) ==
  \E given \in vecs : Step(calls, "matches", Vec(given), matches(builder, given))

Has(calls) ==
  \E given \in Records : Step(calls, "has", Item(given), has(builder, given))

HasAll(vecs, calls) ==
  \E given \in vecs : Step(calls, "has_all", Vec(given), has_all(builder, given))

HasAny(vecs, calls) ==
  \E given \in vecs : Step(calls, "has_any", Vec(given), has_any(builder, given))

All(calls) ==
  \E predicate \in Predicates : Step(calls, "all", Fn(predicate), all(builder, predicate))

Any(calls) ==
  \E predicate \in Predicates : Step(calls, "any", Fn(predicate), any(builder, predicate))

Length(calls) ==
  \E given \in Lengths : Step(calls, "length", Usize(given), length(builder, given))

\* the chain ends and the builder is dropped
Drop ==
  /\ pc = "running"
  /\ pc' = "done"
  /\ UNCHANGED <<builder, snapshot, hist, last, evaluated, returned, app, appLast>>

\* a query followed by not() calls and one assertion
Next ==
  \/ Not(1)
  \/ Matches(Vecs, 1)
  \/ Has(1)
  \/ HasAll(Vecs, 1)
  \/ HasAny(Vecs, 1)
  \/ All(1)
  \/ Any(1)
  \/ Length(1)
  \/ Drop

Spec == Init /\ [][Next]_vars

\* a query followed by a chain of not() and assertion calls
ChainNext ==
  \/ Not(MaxCalls)
  \/ Matches(ChainGivens, MaxCalls)
  \/ Has(MaxCalls)
  \/ HasAll(ChainGivens, MaxCalls)
  \/ HasAny(ChainGivens, MaxCalls)
  \/ All(MaxCalls)
  \/ Any(MaxCalls)
  \/ Length(MaxCalls)
  \/ Drop

ChainSpec == ChainInit /\ [][ChainNext]_vars

\* ---------------------------------------------------- a test on an App
AppInit ==
  \E checks \in BOOLEAN :
    /\ app = NewApp(checks)
    /\ appLast = NoOp
    /\ builder = NoBuilder
    /\ pc = "none"
    /\ snapshot = <<>>
    /\ hist = <<>>
    /\ last = NoCall
    /\ evaluated = 0
    /\ returned = 0

\* one TestApp method call: it returns res or panics, leaving the App as next
AppCall(op, e, amount, res, next) ==
  /\ ~app.borrowed
  /\ ~app.panicked
  /\ appLast' = [op |-> op, entity |-> e, amount |-> amount, before |-> app,
                 res |-> res]
  /\ app' = IF res.panic THEN [next EXCEPT !.panicked = TRUE] ELSE next
  /\ UNCHANGED <<builder, pc, snapshot, hist, last, evaluated, returned>>

SpawnEmpty ==
  /\ Len(app.world) < MaxEntities
  /\ AppCall("spawn_empty", Len(app.world) + 1, 0,
             Ok(EntityWorldMut(Len(app.world) + 1)), spawn_empty(app))

Spawn ==
  /\ Len(app.world) < MaxEntities
  /\ \E c \in Counts :
       AppCall("spawn", Len(app.world) + 1, 0,
               Ok(EntityWorldMut(Len(app.world) + 1)), spawn(app, Countdown(c)))

Entity == \E e \in EntityIds : AppCall("entity", e, 0, entity(app, e), app)

EntityMut == \E e \in EntityIds : AppCall("entity_mut", e, 0, entity_mut(app, e), app)

GetEntity == \E e \in EntityIds : AppCall("get_entity", e, 0, get_entity(app, e), app)

GetEntityMut ==
  \E e \in EntityIds : AppCall("get_entity_mut", e, 0, get_entity_mut(app, e), app)

Component == \E e \in EntityIds : AppCall("component", e, 0, component(app, e), app)

GetComponent ==
  \E e \in EntityIds : AppCall("get_component", e, 0, get_component(app, e), app)

UpdateOnce ==
  /\ app.updates < MaxUpdates
  /\ AppCall("update_once", 0, 1, Ok(None), update_once(app))

UpdateNTimes ==
  \E amount \in Amounts :
    /\ app.updates + amount <= MaxUpdates
    /\ AppCall("update_n_times", 0, amount, Ok(None), update_n_times(app, amount))

AppNext ==
  \/ SpawnEmpty
  \/ Spawn
  \/ Entity
  \/ EntityMut
  \/ GetEntity
  \/ GetEntityMut
  \/ Component
  \/ GetComponent
  \/ UpdateOnce
  \/ UpdateNTimes

AppSpec == AppInit /\ [][AppNext]_vars

\* ------------------------------------------------- vocabulary of the claims
Range(s) == {s[i] : i \in 1..Len(s)}

Count(s, x) == Cardinality({i \in 1..Len(s) : s[i] = x})

MultisetEq(r, e) == \A x \in Records : Count(r, x) = Count(e, x)

\* the rearrangements of s
Perms(s) ==
  {[i \in 1..Len(s) |-> s[f[i]]] :
     f \in {g \in [1..Len(s) -> 1..Len(s)] : \A i, j \in 1..Len(s) : g[i] = g[j] => i = j}}

Called(m) == last.method = m
Succeeded == ~last.out.aborted
NotsBefore == Len(last.hist) - 1      \* not() calls since the previous assertion
R0 == last.before.query               \* the results the last call ran on

\* what method m does on builder self with the recorded argument
Call(m, self, arg) ==
  CASE m = "matches" -> matches(self, arg.v)
    [] m = "has" -> has(self, arg.v)
    [] m = "has_all" -> has_all(self, arg.v)
    [] m = "has_any" -> has_any(self, arg.v)
    [] m = "all" -> all(self, arg.v)
    [] m = "any" -> any(self, arg.v)
    [] m = "length" -> length(self, arg.v)

\* C1: the positive form matches(E) succeeds iff the results and E are equal
\* as multisets (same elements, same multiplicity of each, same count).
C1_MatchesIffMultisetEqual ==
  (Called("matches") /\ ~last.before.invert)
    => (Succeeded <=> MultisetEq(R0, last.arg.v))

\* C2: whenever one of the seven assertion methods returns a builder, called
\* with invert false or true, the returned builder has invert = false.
C2_ReturnedInvertFalse ==
  (~Called("none") /\ Succeeded)
    => /\ last.out.builder.invert = FALSE
       /\ ~last.out.builder.moved
       /\ hist[1] = FALSE

C2_Witness ==
  /\ Called("matches") /\ last.before.invert /\ Succeeded
  /\ evaluated = 2

\* C3: an assertion call is evaluated in its negated form iff an odd number
\* of not() calls occurred since the previous assertion call (or since
\* construction); not() calls before an earlier assertion have no effect.
C3_NegatedIffOddNots ==
  ~Called("none")
    => last.out = Call(last.method,
                       [last.before EXCEPT !.invert = (NotsBefore % 2 = 1)],
                       last.arg)

\* q.not().has(x).not().length(1): not-has(x), then not-length(1)
C3_Witness ==
  /\ Called("length") /\ evaluated = 2 /\ NotsBefore = 1 /\ Succeeded
  /\ last.arg.v = 1 /\ Len(R0) # 1

\* C4: not().not() is a no-op: two consecutive not() calls give back the
\* invert flag they started from, and an assertion called after them has the
\* outcome it has on the builder as it was before the two calls.
C4_DoubleNotNoOp ==
  /\ \A i \in 1..(Len(hist) - 2) : hist[i + 2] = hist[i]
  /\ (~Called("none") /\ NotsBefore >= 2)
       => last.out = Call(last.method,
                          [last.before EXCEPT !.invert = last.hist[Len(last.hist) - 2]],
                          last.arg)

C4_Witness ==
  /\ Called("has") /\ NotsBefore = 2 /\ ~Succeeded
  /\ last.out.failure = "mismatch"

\* C5: has(x) succeeds iff some result equals x and aborts otherwise;
\* not().has(x) succeeds iff no result equals x and aborts otherwise.
C5_HasIffPresent ==
  Called("has")
    => /\ NotsBefore = 0 => (Succeeded <=> last.arg.v \in Range(R0))
       /\ NotsBefore = 1 => (Succeeded <=> last.arg.v \notin Range(R0))

\* empty results: not().has(x) succeeds
C5_Witness ==
  /\ Called("has") /\ NotsBefore = 1 /\ Succeeded /\ R0 = <<>>

\* C6: length(n) succeeds iff the number of results, duplicates counted, is
\* exactly n; not().length(n) succeeds iff it is not n.
C6_LengthIffCount ==
  Called("length")
    => /\ NotsBefore = 0 => (Succeeded <=> Len(R0) = last.arg.v)
       /\ NotsBefore = 1 => (Succeeded <=> Len(R0) # last.arg.v)

C6_Witness ==
  /\ Called("length") /\ NotsBefore = 0 /\ ~Succeeded
  /\ Len(R0) > last.arg.v /\ Count(R0, 1) = 2

\* C7: matches and not().matches are order-independent: rearranging the
\* results or rearranging the given Vec never changes success into abort
\* (both at once is one rearrangement after the other, and every pair of a
\* result sequence and a given Vec within the bounds is reached).
C7_MatchesOrderIndependent ==
  Called("matches")
    => /\ \A r \in Perms(R0) :
            matches([last.before EXCEPT !.query = r], last.arg.v).aborted
              = last.out.aborted
       /\ \A e \in Perms(last.arg.v) :
            matches(last.before, e).aborted = last.out.aborted

\* results [a,b] against the given [b,a]
C7_Witness ==
  /\ Called("matches") /\ ~last.before.invert /\ Succeeded
  /\ Len(R0) = 2 /\ R0[1] # R0[2]
  /\ last.arg.v = <<R0[2], R0[1]>>

\* C8: has(x) and has_all([x]) agree, in the positive and in the negated
\* form: both succeed iff x is present (negated: absent) in the results.
C8_HasAgreesWithHasAllSingleton ==
  /\ Called("has")
       => /\ has_all(last.before, <<last.arg.v>>).aborted = last.out.aborted
          /\ Succeeded <=> (last.before.invert <=> last.arg.v \notin Range(R0))
  /\ (Called("has_all") /\ Len(last.arg.v) = 1)
       => /\ has(last.before, last.arg.v[1]).aborted = last.out.aborted
          /\ Succeeded <=> (last.before.invert <=> last.arg.v[1] \notin Range(R0))

C8_Witness ==
  /\ Called("has_all") /\ Len(last.arg.v) = 1 /\ Succeeded
  /\ ~last.before.invert /\ Len(R0) = 2 /\ R0[2] = last.arg.v[1] /\ R0[1] # R0[2]

\* C9: a failing assertion is fatal: the chain is then in a terminal failed
\* state with no builder, nothing of the chain runs afterwards, and the chain
\* completes normally iff every assertion evaluated returned a builder.
C9_FailureIsFatal ==
  /\ [](/\ (last.out.failure # "none") <=> (pc = "aborted")
        /\ pc = "aborted"
             => /\ builder = NoBuilder
                /\ last.out.aborted
                /\ evaluated = returned + 1
        /\ pc # "aborted"
             => /\ ~builder.moved
                /\ evaluated = returned)
  /\ [][pc = "aborted" => UNCHANGED vars]_vars
  /\ [][pc = "done" => UNCHANGED vars]_vars

C9_Witness ==
  /\ pc = "aborted" /\ evaluated = 2 /\ returned = 1
  /\ last.out.failure = "mismatch"

\* C10: has_all(E) succeeds iff every element of E is present in the results
\* and on failure cites the first element of E that is missing;
\* not().has_all(E) succeeds iff some element of E is missing.
C10_HasAll ==
  Called("has_all")
    => /\ NotsBefore = 0
            => /\ Succeeded <=> (\A i \in 1..Len(last.arg.v) : last.arg.v[i] \in Range(R0))
               /\ ~Succeeded
                    => \E k \in 1..Len(last.arg.v) :
                         /\ last.arg.v[k] \notin Range(R0)
                         /\ \A j \in 1..(k - 1) : last.arg.v[j] \in Range(R0)
                         /\ last.out.failure = "mismatch"
                         /\ last.out.given = Item(last.arg.v[k])
       /\ NotsBefore = 1
            => (Succeeded <=> (\E i \in 1..Len(last.arg.v) : last.arg.v[i] \notin Range(R0)))

\* two different elements are missing and the first of them is cited
C10_Witness ==
  /\ Called("has_all") /\ NotsBefore = 0 /\ ~Succeeded
  /\ Len(last.arg.v) = 2
  /\ last.arg.v[1] \notin Range(R0)
  /\ last.arg.v[2] \notin Range(R0) /\ last.arg.v[2] # last.arg.v[1]
  /\ last.out.given = Item(last.arg.v[1])

\* C11: has_any(E) succeeds iff some result equals some element of E;
\* not().has_any(E) succeeds iff no result equals any element of E, and its
\* failure cites the first result, in the results' order, that is in E.
C11_HasAny ==
  Called("has_any")
    => /\ NotsBefore = 0
            => (Succeeded <=> (\E i \in 1..Len(R0) : R0[i] \in Range(last.arg.v)))
       /\ NotsBefore = 1
            => /\ Succeeded <=> (\A i \in 1..Len(R0) : R0[i] \notin Range(last.arg.v))
               /\ ~Succeeded
                    => \E k \in 1..Len(R0) :
                         /\ R0[k] \in Range(last.arg.v)
                         /\ \A j \in 1..(k - 1) : R0[j] \notin Range(last.arg.v)
                         /\ last.out.failure = "unexpected_match"
                         /\ last.out.matched = Some(R0[k])

\* the first matching result is not the first element of E
C11_Witness ==
  /\ Called("has_any") /\ NotsBefore = 1 /\ ~Succeeded
  /\ Len(R0) = 2 /\ Len(last.arg.v) = 2
  /\ R0[1] = last.arg.v[2] /\ R0[2] = last.arg.v[1] /\ R0[1] # R0[2]
  /\ last.out.matched = Some(R0[1])

\* C12: all(p) succeeds iff p holds for every result (vacuously for none)
\* and on failure cites the first result for which p is false; not().all(p)
\* succeeds iff p is false for some result, so it aborts for empty results.
C12_All ==
  Called("all")
    => /\ NotsBefore = 0
            => /\ Succeeded <=> (\A i \in 1..Len(R0) : R0[i] \in last.arg.v)
               /\ ~Succeeded
                    => \E k \in 1..Len(R0) :
                         /\ R0[k] \notin last.arg.v
                         /\ \A j \in 1..(k - 1) : R0[j] \in last.arg.v
                         /\ last.out.failure = "mismatch"
                         /\ last.out.found = Item(R0[k])
       /\ NotsBefore = 1
            => /\ Succeeded <=> (\E i \in 1..Len(R0) : R0[i] \notin last.arg.v)
               /\ R0 = <<>> => ~Succeeded

\* two different results fail p; the first of them is cited
C12_Witness ==
  /\ Called("all") /\ NotsBefore = 0 /\ ~Succeeded
  /\ Len(R0) = 2
  /\ R0[1] \notin last.arg.v /\ R0[2] \notin last.arg.v /\ R0[1] # R0[2]
  /\ last.out.found = Item(R0[1])

\* C13: any(p) succeeds iff p holds for some result (so it aborts for empty
\* results); not().any(p) succeeds iff p holds for no result, and its
\* failure cites the first result for which p holds.
C13_Any ==
  Called("any")
    => /\ NotsBefore = 0
            => /\ Succeeded <=> (\E i \in 1..Len(R0) : R0[i] \in last.arg.v)
               /\ R0 = <<>> => ~Succeeded
       /\ NotsBefore = 1
            => /\ Succeeded <=> (\A i \in 1..Len(R0) : R0[i] \notin last.arg.v)
               /\ ~Succeeded
                    => \E k \in 1..Len(R0) :
                         /\ R0[k] \in last.arg.v
                         /\ \A j \in 1..(k - 1) : R0[j] \notin last.arg.v
                         /\ last.out.failure = "unexpected_match"
                         /\ last.out.matched = Some(R0[k])

C13_Witness ==
  /\ Called("any") /\ NotsBefore = 1 /\ ~Succeeded
  /\ Len(R0) = 2
  /\ R0[1] \in last.arg.v /\ R0[2] \in last.arg.v /\ R0[1] # R0[2]
  /\ last.out.matched = Some(R0[1])

\* the report names record x
Cites(val, x) == val.tag \in {"item", "some"} /\ val.v = x

\* first position of s holding a record that is not in t, 0 if none
FirstAbsent(s, t) ==
  IF \E i \in 1..Len(s) : s[i] \notin Range(t)
  THEN CHOOSE i \in 1..Len(s) :
         s[i] \notin Range(t) /\ \A j \in 1..(i - 1) : s[j] \in Range(t)
  ELSE 0

\* C16: a failing positive matches(E) reports the first failing sub-check
\* in the order (1) a result absent from E, citing the first such result,
\* (2) an element of E absent from the results, citing the first such
\* element, (3) different lengths, citing the expected and the actual length.
C16_MatchesReportsFirstFailingCheck ==
  (Called("matches") /\ NotsBefore = 0 /\ ~Succeeded)
    => /\ last.out.failure = "mismatch"
       /\ IF FirstAbsent(R0, last.arg.v) # 0
          THEN \/ Cites(last.out.given, R0[FirstAbsent(R0, last.arg.v)])
               \/ Cites(last.out.found, R0[FirstAbsent(R0, last.arg.v)])
          ELSE IF FirstAbsent(last.arg.v, R0) # 0
          THEN \/ Cites(last.out.given, last.arg.v[FirstAbsent(last.arg.v, R0)])
               \/ Cites(last.out.found, last.arg.v[FirstAbsent(last.arg.v, R0)])
          ELSE /\ Len(R0) # Len(last.arg.v)
               /\ last.out.given = Usize(Len(last.arg.v))
               /\ last.out.found = Usize(Len(R0))

\* C17: the headline of a failing positive matches(E) names the sub-check
\* that failed: "given bundle not found in the query" only when some element
\* of E is absent from the results, "unexpected bundle in the query" only
\* when some result is absent from E.
C17_MatchesHeadlineNamesFailedCheck ==
  (Called("matches") /\ NotsBefore = 0 /\ ~Succeeded)
    => /\ last.out.message = "One of the given bundles wasn't found in the query."
            => FirstAbsent(last.arg.v, R0) # 0
       /\ last.out.message = "The query contains an unexpected bundle."
            => FirstAbsent(R0, last.arg.v) # 0

\* C18: every failure of a positive form is an assertion mismatch printed
\* with the Given and Found sections, every failure of a negated form is an
\* unexpected match printed with the single Match section.
C18_FailureKindFollowsForm ==
  /\ last.out.failure \in {"none", "mismatch", "unexpected_match"}
  /\ (~Called("none") /\ last.out.failure # "none")
       => /\ ~last.before.invert
               => /\ last.out.failure = "mismatch"
                  /\ last.out.sections = <<"Given:", "Found:">>
                  /\ last.out.matched = None
          /\ last.before.invert
               => /\ last.out.failure = "unexpected_match"
                  /\ last.out.sections = <<"Match:">>
                  /\ last.out.given = None /\ last.out.found = None

C18_Witness ==
  /\ Called("has_all") /\ NotsBefore = 1 /\ ~Succeeded
  /\ last.out.sections = <<"Match:">> /\ Len(last.arg.v) = 2

\* C19: the results are set at construction and never change: after any
\* not() and any returning assertion the builder holds the snapshot taken at
\* construction, in the same order; not() flips invert, changes nothing
\* else, evaluates nothing and never aborts.
C19_SnapshotNeverChanges ==
  /\ [](/\ pc # "aborted" => (builder.query = snapshot /\ ~builder.moved)
        /\ ~Called("none") => last.before.query = snapshot
        /\ (~Called("none") /\ Succeeded) => last.out.builder.query = snapshot)
  /\ [][Len(hist') = Len(hist) + 1
          => /\ builder' = [builder EXCEPT !.invert = ~builder.invert]
             /\ pc' = "running"
             /\ UNCHANGED <<snapshot, last, evaluated, returned>>]_vars

C19_Witness ==
  /\ pc = "running" /\ evaluated = 2 /\ returned = 2
  /\ Len(last.hist) = 2
  /\ Len(snapshot) = 2 /\ snapshot[1] > snapshot[2]
  /\ builder.query = snapshot

\* C20: negation is the exact complement: for every method, result sequence
\* and argument, exactly one of X(args) and not().X(args) returns and the
\* other aborts.
C20_NegationIsComplement ==
  ~Called("none")
    => Call(last.method, [last.before EXCEPT !.invert = ~last.before.invert],
            last.arg).aborted
         = ~last.out.aborted

\* results of length 1 against a given Vec with the same record twice
C20_Witness ==
  /\ Called("matches") /\ last.before.invert /\ Succeeded
  /\ Len(R0) = 1 /\ Len(last.arg.v) = 2
  /\ last.arg.v[1] = R0[1] /\ last.arg.v[2] = R0[1]

\* k consecutive update_once() calls on the App a
RECURSIVE UpdateOnceTimes(_, _)
UpdateOnceTimes(k, a) ==
  IF k = 0 THEN a
  ELSE IF UpdateOnceTimes(k - 1, a).panicked THEN UpdateOnceTimes(k - 1, a)
  ELSE update_once(UpdateOnceTimes(k - 1, a))

\* every Countdown of the App is d less than in the App a, nothing else differs
CountedDown(a, d) ==
  /\ Len(app.world) = Len(a.world)
  /\ \A e \in 1..Len(a.world) :
       IF a.world[e].countdown.tag = "some"
       THEN /\ app.world[e].countdown.tag = "some"
            /\ app.world[e].countdown.v = a.world[e].countdown.v - d
       ELSE app.world[e] = a.world[e]

\* C14: update_n_times(n) leaves the App as n consecutive update_once()
\* calls do, update_n_times(0) leaves it unchanged, and with the countdown
\* system every Countdown is 1 less after update_once() and n less after
\* update_n_times(n).
C14_UpdateNTimes ==
  /\ appLast.op = "update_n_times"
       => /\ app = UpdateOnceTimes(appLast.amount, appLast.before)
          /\ appLast.amount = 0 => app = appLast.before
          /\ ~app.panicked
               => /\ CountedDown(appLast.before, appLast.amount)
                  /\ app.updates = appLast.before.updates + appLast.amount
  /\ (appLast.op = "update_once" /\ ~app.panicked)
       => /\ CountedDown(appLast.before, 1)
          /\ app.updates = appLast.before.updates + 1

\* spawn(Countdown(10)); update_n_times(2): the Countdown reads 8
C14_Witness ==
  /\ appLast.op = "update_n_times" /\ appLast.amount = 2
  /\ appLast.before.updates = 0
  /\ appLast.before.world = <<Countdown(10)>>
  /\ app.world = <<Countdown(8)>>
  /\ ~app.panicked

\* C15: get_entity, get_entity_mut and get_component never abort; each
\* returns None exactly where entity, entity_mut and component abort, and
\* the same target otherwise.
C15_ProbesNeverAbort ==
  /\ appLast.op = "get_entity"
       => /\ ~appLast.res.panic
          /\ appLast.res.v.tag = "none" <=> entity(appLast.before, appLast.entity).panic
          /\ appLast.res.v.tag = "some"
               => appLast.res.v.v = entity(appLast.before, appLast.entity).v
  /\ appLast.op = "get_entity_mut"
       => /\ ~appLast.res.panic
          /\ appLast.res.v.tag = "none" <=> entity_mut(appLast.before, appLast.entity).panic
          /\ appLast.res.v.tag = "some"
               => appLast.res.v.v = entity_mut(appLast.before, appLast.entity).v
  /\ appLast.op = "get_component"
       => /\ ~appLast.res.panic
          /\ appLast.res.v.tag = "none" <=> component(appLast.before, appLast.entity).panic
          /\ appLast.res.v.tag = "some"
               => appLast.res.v.v = component(appLast.before, appLast.entity).v

\* C15 as the code has it: get_entity and get_entity_mut never abort and
\* return None exactly where entity and entity_mut abort, the same target
\* otherwise; get_component aborts exactly when the entity does not exist,
\* returns None exactly when the entity exists without the component (where
\* component aborts too), and the target of component otherwise.
C15_ProbesAsDocumented ==
  /\ appLast.op = "get_entity"
       => /\ ~appLast.res.panic
          /\ appLast.res.v.tag = "none" <=> entity(appLast.before, appLast.entity).panic
          /\ appLast.res.v.tag = "some"
               => appLast.res.v.v = entity(appLast.before, appLast.entity).v
  /\ appLast.op = "get_entity_mut"
       => /\ ~appLast.res.panic
          /\ appLast.res.v.tag = "none" <=> entity_mut(appLast.before, appLast.entity).panic
          /\ appLast.res.v.tag = "some"
               => appLast.res.v.v = entity_mut(appLast.before, appLast.entity).v
  /\ appLast.op = "get_component"
       => /\ appLast.res.panic <=> appLast.entity \notin 1..Len(appLast.before.world)
          /\ appLast.res.panic
               => (app.panicked /\ component(appLast.before, appLast.entity).panic)
          /\ ~appLast.res.panic
               => /\ appLast.res.v.tag = "none"
                       <=> component(appLast.before, appLast.entity).panic
                  /\ appLast.res.v.tag = "none"
                       <=> appLast.before.world[appLast.entity] = NoComponents
                  /\ appLast.res.v.tag = "some"
                       => appLast.res.v.v = component(appLast.before, appLast.entity).v
  /\ appLast.op = "component"
       => (appLast.res.panic
             <=> \/ appLast.entity \notin 1..Len(appLast.before.world)
                 \/ appLast.before.world[appLast.entity] = NoComponents)

\* get_component on an entity that was never spawned, next to a spawned one
C15_Witness ==
  /\ appLast.op = "get_component" /\ appLast.res.panic /\ app.panicked
  /\ Len(appLast.before.world) = 1 /\ appLast.entity = 2

====
